---- MODULE Spec2Model ----
(***************************************************************************)
(* Deployment orchestration pipeline of llm-deploy-endpoint: the edge      *)
(* function handler (api/request.js and its later revision with the        *)
(* generation fallback), the generation provider, the repository host and  *)
(* the evaluator callback it talks to.                                     *)
(***************************************************************************)
EXTENDS Integers, Sequences, FiniteSets, TLC

(* ------------------------------ bounds --------------------------------- *)
\* number of handler instances that can be in flight at once
NumProcs == 2
\* total number of invocations in one behaviour
MaxRuns == 2

Procs == 1..NumProcs

(* ------------------------- program constants --------------------------- *)
\* one attempt more than the default
maxRetries_Six == 5 + 1

\* notify(url, payload, maxRetries = 5)
maxRetries == 5
\* ghGetSha: `return null` / `j.sha || null`
Null == 0
\* ghLatestCommit: `j?.object?.sha || "unknown"`
Unknown == -1

IndexPath == "index.html"
ReadmePath == "README.md"
Paths == {IndexPath, ReadmePath}

NoUrl == <<>>
NoText == <<>>

(* ------------------------------ inputs --------------------------------- *)
Tasks == {"t1"}
Briefs == {<<"b">>, <<"<", "b", ">">>}
Secrets == {"", "s3cret", "wrong"}
Methods == {"POST", "GET"}

\* process-wide configuration: "" is an unset variable
FullEnv ==
  [GITHUB_USERNAME |-> "owner", GITHUB_TOKEN |-> "tok",
   STUDENT_SECRET |-> "s3cret", ANTHROPIC_API_KEY |-> "key"]

Envs ==
  {FullEnv,
   [FullEnv EXCEPT !.GITHUB_USERNAME = ""],
   [FullEnv EXCEPT !.GITHUB_TOKEN = ""],
   [FullEnv EXCEPT !.STUDENT_SECRET = ""],
   [FullEnv EXCEPT !.ANTHROPIC_API_KEY = ""]}

\* a request body after `req.json().catch(() => ({}))` and destructuring;
\* a missing field is "" (0 for round, <<>> for brief)
GoodBodies ==
  [email : {"a@b"}, secret : {"s3cret"}, task : Tasks, round : {1, 2},
   nonce : {"n1"}, brief : Briefs, evaluation_url : {"cb"}]

EmptyBody ==
  [email |-> "", secret |-> "", task |-> "", round |-> 0,
   nonce |-> "", brief |-> <<>>, evaluation_url |-> ""]

\* the well-formed request the malformed ones are derived from
BaseBody ==
  [email |-> "a@b", secret |-> "s3cret", task |-> "t1", round |-> 1,
   nonce |-> "n1", brief |-> <<"b">>, evaluation_url |-> "cb"]

Bodies ==
  GoodBodies
  \cup {[BaseBody EXCEPT !.secret = s] : s \in Secrets}
  \cup {[BaseBody EXCEPT !.email = ""],
        [BaseBody EXCEPT !.task = ""],
        [BaseBody EXCEPT !.round = 0],
        [BaseBody EXCEPT !.nonce = ""],
        [BaseBody EXCEPT !.brief = <<>>],
        [BaseBody EXCEPT !.evaluation_url = ""],
        [BaseBody EXCEPT !.evaluation_url = "", !.secret = "wrong"],
        EmptyBody}

\* the requests the platform hands to the handler
Requests ==
  [method : {"POST"}, body : Bodies]
  \cup [method : Methods \ {"POST"}, body : {BaseBody, EmptyBody}]

NoBody == EmptyBody

(* ------------------------- text of documents --------------------------- *)
\* a text is a sequence of tokens; NL stands for white space
GenTexts ==
  { <<>>,
    <<"DOCTYPE", "x", "END">>,
    <<"FENCE_HTML", "NL", "DOCTYPE", "x", "END", "NL", "FENCE">>,
    <<"x", "END">>,
    <<"DOCTYPE", "x">> }

MdTexts == { <<>>, <<"FENCE_MD", "NL", "md", "FENCE">>, <<"md">> }

\* responses of the generation provider: HTTP failure, unparsable body,
\* body without text, body with text
GenResponses(texts) ==
  {[ok |-> FALSE, json |-> FALSE, text |-> NoText],
   [ok |-> TRUE, json |-> FALSE, text |-> NoText]}
  \cup {[ok |-> TRUE, json |-> TRUE, text |-> t] : t \in texts}

RECURSIVE StripFence(_, _)
\* s.replace(/<fence>\n?/g, "")
StripFence(s, fence) ==
  IF s = <<>> THEN <<>>
  ELSE IF Head(s) = fence
       THEN IF Len(s) > 1 /\ s[2] = "NL"
            THEN StripFence(SubSeq(s, 3, Len(s)), fence)
            ELSE StripFence(Tail(s), fence)
       ELSE <<Head(s)>> \o StripFence(Tail(s), fence)

RECURSIVE TrimLeft(_)
TrimLeft(s) ==
  IF s # <<>> /\ Head(s) = "NL" THEN TrimLeft(Tail(s)) ELSE s

RECURSIVE TrimRight(_)
TrimRight(s) ==
  IF s # <<>> /\ s[Len(s)] = "NL" THEN TrimRight(SubSeq(s, 1, Len(s) - 1)) ELSE s

\* String.prototype.trim
Trim(s) == TrimRight(TrimLeft(s))

\* code.replace(/```html\n?/g, "").replace(/```\n?/g, "").trim()
CleanHTML(s) == Trim(StripFence(StripFence(s, "FENCE_HTML"), "FENCE"))

\* md.replace(/```markdown\n?/g, "").replace(/```\n?/g, "").trim()
CleanMD(s) == Trim(StripFence(StripFence(s, "FENCE_MD"), "FENCE"))

StartsWith(s, tok) == s # <<>> /\ Head(s) = tok
EndsWith(s, tok) == s # <<>> /\ s[Len(s)] = tok

\* IsFullHTML that only tests the start of the text
IsFullHTML_StartOnly(code) == StartsWith(code, "DOCTYPE")

\* the shape test of anthropicHTML
IsFullHTML(code) == StartsWith(code, "DOCTYPE") /\ EndsWith(code, "END")

\* anthropicHTML: [threw, value, msg]
anthropicHTML(resp) ==
  IF ~resp.ok THEN [threw |-> TRUE, value |-> NoText, msg |-> "Anthropic status"]
  ELSE IF ~resp.json THEN [threw |-> TRUE, value |-> NoText, msg |-> "json"]
  ELSE IF ~IsFullHTML(CleanHTML(resp.text))
       THEN [threw |-> TRUE, value |-> NoText,
             msg |-> "Anthropic returned non-HTML or partial HTML"]
       ELSE [threw |-> FALSE, value |-> CleanHTML(resp.text), msg |-> ""]

\* anthropicREADME: [threw, value, msg]
anthropicREADME(resp) ==
  IF ~resp.ok THEN [threw |-> TRUE, value |-> NoText, msg |-> "Anthropic README status"]
  ELSE IF ~resp.json THEN [threw |-> TRUE, value |-> NoText, msg |-> "json"]
  ELSE [threw |-> FALSE, value |-> CleanMD(resp.text), msg |-> ""]

RECURSIVE EscapeBrief(_)
\* brief.replace(/[<>]/g, m => ({'<':'&lt;','>':'&gt;'}[m]))
EscapeBrief(b) ==
  IF b = <<>> THEN <<>>
  ELSE <<(IF Head(b) = "<" THEN "&lt;" ELSE IF Head(b) = ">" THEN "&gt;" ELSE Head(b))>>
       \o EscapeBrief(Tail(b))

fallbackHTML(brief) ==
  <<"DOCTYPE", "Fallback App">> \o EscapeBrief(brief) \o <<"END">>

fallbackREADME(task, brief) ==
  <<"# ", task, "Auto-generated fallback README.", "## Brief">> \o brief
  \o <<"## License", "MIT">>

\* btoa(unescape(encodeURIComponent(s)))
toB64(s) == [b64 |-> s]
\* the host's decoding of a put-file body
fromB64(c) == c.b64

(* ------------------------------- URLs ---------------------------------- *)
RepoUrlOf(owner, name) == <<"https://github.com", owner, name>>
PagesUrlOf(owner, repo) == <<"https://", owner, ".github.io", repo>>

\* round === 1 ? "Add <path>" : `Update <path> - Round ${round}`
CommitMessage(path, round) ==
  IF round = 1 THEN <<"Add", path>> ELSE <<"Update", path, "Round", round>>

(* ------------------------------- state --------------------------------- *)
VARIABLES
  variant,    \* which revision of the handler is deployed
  overlap,    \* whether the platform lets invocations overlap
  env,        \* process.env
  pc,         \* position of each handler instance
  req,        \* [method, body] of the invocation
  html, readme, repoUrl, idxSha, rmdSha, pagesUrl, commitSha,  \* handler locals
  i,          \* loop index of notify
  payload,    \* the object passed to notify
  response,   \* the Response returned by the handler
  calls,      \* outbound calls of the run so far, in order, with their results
  delays,     \* seconds slept by notify so far, in order
  repo,       \* repository host: state of the repository of each name
  nextSha,    \* repository host: next revision identifier
  inbox,      \* evaluator: the notification it accepted from each run in flight
  runs,       \* invocations started so far
  prev        \* summary of the last run that returned (a run is an invocation
              \* that passed the checks before the try block)

cfgVars == <<variant, overlap, env>>
localVars == <<html, readme, repoUrl, idxSha, rmdSha, pagesUrl, commitSha, i, payload>>
hostVars == <<repo, nextSha>>
vars == <<variant, overlap, env, pc, req, html, readme, repoUrl, idxSha, rmdSha,
          pagesUrl, commitSha, i, payload, response, calls, delays, repo,
          nextSha, inbox, runs, prev>>

Final == "part_000"
Earlier == "api/request.js"
Variants == {Final, Earlier}

NoResponse ==
  [status |-> 0, error |-> "", ok |-> "", repo_url |-> NoUrl,
   commit_sha |-> Null, pages_url |-> NoUrl]

\* J(status, {error})
JError(status, msg) == [NoResponse EXCEPT !.status = status, !.error = msg]

\* JOk with the two URLs exchanged
JOk_Swapped(url, sha, pages) ==
  [NoResponse EXCEPT !.status = 200, !.ok = "ok", !.repo_url = pages,
                     !.commit_sha = sha, !.pages_url = url]

\* J(200, {status: "ok", repo_url, commit_sha, pages_url})
JOk(url, sha, pages) ==
  [NoResponse EXCEPT !.status = 200, !.ok = "ok", !.repo_url = url,
                     !.commit_sha = sha, !.pages_url = pages]

NoPayload ==
  [email |-> "", task |-> "", round |-> 0, nonce |-> "", repo_url |-> NoUrl,
   commit_sha |-> Null, pages_url |-> NoUrl]

NoReq == [method |-> "", body |-> NoBody]

\* one outbound call and how it settled
Call(op, path, sha, content, msg, status, res, err, fault, body) ==
  [op |-> op, path |-> path, sha |-> sha, content |-> content, msg |-> msg,
   status |-> status, res |-> res, err |-> err, fault |-> fault, body |-> body]

NoPrev == [task |-> "", round |-> 0, pc |-> "idle", healthy |-> FALSE,
           markers |-> [q \in Paths |-> Null]]

(* --------------------------- repository host --------------------------- *)
NoFile == [sha |-> Null, content |-> NoText]

NoRepo == [exists |-> FALSE, files |-> [q \in Paths |-> NoFile],
           head |-> Null, pages |-> FALSE]

\* the account that owns the token
HostAccount == FullEnv.GITHUB_USERNAME

\* POST /user/repos {name, auto_init: true, license_template: "mit"} on a free
\* name: first commit with the generated README.md
HostCreated(name, sha) ==
  [exists |-> TRUE,
   files |-> [q \in Paths |->
               IF q = ReadmePath THEN [sha |-> sha, content |-> <<"# ", name>>]
               ELSE NoFile],
   head |-> sha, pages |-> FALSE]

\* responses to POST /user/repos
\* [status, nameExists, html_url]; status 0 is a transport error
CreateResponses(name) ==
  (IF repo[name].exists
   THEN {[status |-> 422, nameExists |-> TRUE, html_url |-> NoUrl, fault |-> FALSE]}
   ELSE {[status |-> 201, nameExists |-> FALSE,
          html_url |-> RepoUrlOf(HostAccount, name), fault |-> FALSE],
         [status |-> 201, nameExists |-> FALSE, html_url |-> NoUrl, fault |-> FALSE]})
  \cup {[status |-> st, nameExists |-> FALSE, html_url |-> NoUrl, fault |-> TRUE] :
          st \in {422, 500}}

\* responses to GET /repos/{owner}/{repo}/contents/{path}: [status, sha];
\* a successful response may lack the sha of the path
ContentsResponses(owner, name, path) ==
  (IF owner = HostAccount /\ repo[name].exists /\ repo[name].files[path].sha # Null
   THEN {[status |-> 200, sha |-> repo[name].files[path].sha, fault |-> FALSE],
         [status |-> 200, sha |-> Null, fault |-> TRUE]}
   ELSE {[status |-> 404, sha |-> Null, fault |-> FALSE]})
  \cup {[status |-> 500, sha |-> Null, fault |-> TRUE]}

\* status of PUT /repos/{owner}/{repo}/contents/{path} {content, sha?} on a
\* healthy host: 404 without the repository, 201 for a new path, 200 for a
\* replace with the current marker, 422 without a marker for an existing
\* path or with a marker for a new one, 409 for a stale marker
PutStatus(owner, name, path, sha) ==
  IF owner # HostAccount \/ ~repo[name].exists THEN 404
  ELSE IF repo[name].files[path].sha = Null
       THEN (IF sha = Null THEN 201 ELSE 422)
       ELSE IF sha = Null THEN 422
       ELSE IF sha = repo[name].files[path].sha THEN 200
       ELSE 409

PutResponses(owner, name, path, sha) ==
  {[status |-> PutStatus(owner, name, path, sha), fault |-> FALSE],
   [status |-> 500, fault |-> TRUE]}

\* repository after an accepted put: one new commit on the default branch
HostPut(name, path, content, newSha) ==
  [repo[name] EXCEPT !.files[path] = [sha |-> newSha, content |-> content],
                     !.head = newSha]

\* responses to POST /repos/{owner}/{repo}/pages
PagesResponses(owner, name) ==
  {[status |-> IF owner # HostAccount \/ ~repo[name].exists THEN 404
               ELSE IF repo[name].pages THEN 409 ELSE 201,
    fault |-> FALSE],
   [status |-> 500, fault |-> TRUE]}

\* responses to GET /repos/{owner}/{repo}/git/refs/heads/main: [status, sha]
RefResponses(owner, name) ==
  (IF owner = HostAccount /\ repo[name].exists
   THEN {[status |-> 200, sha |-> repo[name].head, fault |-> FALSE]}
   ELSE {[status |-> 404, sha |-> Null, fault |-> FALSE]})
  \cup {[status |-> 500, sha |-> Null, fault |-> TRUE],
        [status |-> 200, sha |-> Null, fault |-> TRUE]}

\* responses of the evaluator callback; status 0 is a transport error
CallbackStatuses == {200, 500, 0}

\* Response.ok
IsOk(status) == status >= 200 /\ status <= 299

(* ------------------ environment of overlapping runs -------------------- *)
\* With overlapping invocations the environment is narrowed to the race
\* itself: well-formed requests, a provider that is either down or returns
\* a plain well-formed text, a host without faults of its own, a callback
\* that accepts or refuses.
RaceBodies ==
  {BaseBody, [BaseBody EXCEPT !.round = 2, !.brief = <<"<", "b", ">">>]}

RequestsOffered ==
  IF overlap THEN [method : {"POST"}, body : RaceBodies] ELSE Requests

GenOffered(texts) ==
  IF overlap
  THEN {r \in GenResponses(texts) : ~r.ok \/ r.text = <<"DOCTYPE", "x", "END">>}
  ELSE GenResponses(texts)

HostOffered(responses) ==
  IF overlap THEN {r \in responses : ~r.fault} ELSE responses

CallbackOffered ==
  IF overlap THEN CallbackStatuses \ {0} ELSE CallbackStatuses

(* ------------------------------ handler -------------------------------- *)
Init ==
  /\ variant \in Variants
  /\ overlap \in BOOLEAN
  /\ env \in Envs
  /\ pc = [p \in Procs |-> "idle"]
  /\ req = [p \in Procs |-> NoReq]
  /\ html = [p \in Procs |-> NoText]
  /\ readme = [p \in Procs |-> NoText]
  /\ repoUrl = [p \in Procs |-> NoUrl]
  /\ idxSha = [p \in Procs |-> Null]
  /\ rmdSha = [p \in Procs |-> Null]
  /\ pagesUrl = [p \in Procs |-> NoUrl]
  /\ commitSha = [p \in Procs |-> Null]
  /\ i = [p \in Procs |-> 0]
  /\ payload = [p \in Procs |-> NoPayload]
  /\ response = [p \in Procs |-> NoResponse]
  /\ calls = [p \in Procs |-> <<>>]
  /\ delays = [p \in Procs |-> <<>>]
  /\ repo = [t \in Tasks |-> NoRepo]
  /\ nextSha = 1
  /\ inbox = [p \in Procs |-> NoPayload]
  /\ runs = 0
  /\ prev = NoPrev

\* the four (three in the earlier revision) values of the env presence check
EnvPresent ==
  /\ env.GITHUB_USERNAME # ""
  /\ env.GITHUB_TOKEN # ""
  /\ env.ANTHROPIC_API_KEY # ""
  /\ (variant = Final => env.STUDENT_SECRET # "")

\* !secret || secret !== process.env.STUDENT_SECRET
SecretBad(b) == b.secret = "" \/ b.secret # env.STUDENT_SECRET

\* !email || !task || !round || !nonce || !brief || !evaluation_url
FieldMissing(b) ==
  \/ b.email = ""
  \/ b.task = ""
  \/ b.round = 0
  \/ b.nonce = ""
  \/ b.brief = <<>>
  \/ b.evaluation_url = ""

\* Precheck without the required-fields test
Precheck_NoFields(method, b) ==
  IF method # "POST" THEN JError(405, "Method Not Allowed")
  ELSE IF ~EnvPresent THEN JError(500, "Server missing env vars")
  ELSE IF SecretBad(b) THEN JError(403, "Invalid secret")
  ELSE NoResponse

\* the checks of the handler before its try block: the response it returns,
\* or NoResponse when the request passes
Precheck(method, b) ==
  IF method # "POST" THEN JError(405, "Method Not Allowed")
  ELSE IF ~EnvPresent THEN JError(500, "Server missing env vars")
  ELSE IF SecretBad(b) THEN JError(403, "Invalid secret")
  ELSE IF FieldMissing(b) THEN JError(400, "Missing required fields")
  ELSE NoResponse

\* a catch block that goes back to the lookup when a write was refused
Catch_Retry(p, msg) ==
  IF pc[p] \in {"putIdx", "putRmd"}
  THEN /\ pc' = [pc EXCEPT ![p] = IF pc[p] = "putIdx" THEN "getIdx" ELSE "getRmd"]
       /\ UNCHANGED response
  ELSE /\ pc' = [pc EXCEPT ![p] = "failed"]
       /\ response' = [response EXCEPT ![p] = JError(500, msg)]

\* the catch block of the handler: J(500, {error: e.message})
Catch(p, msg) ==
  /\ pc' = [pc EXCEPT ![p] = "failed"]
  /\ response' = [response EXCEPT ![p] = JError(500, msg)]

Log(p, c) == calls' = [calls EXCEPT ![p] = Append(calls[p], c)]

\* the platform starts the handler on a request
Invoke(p) ==
  /\ pc[p] = "idle"
  /\ runs < MaxRuns
  /\ overlap \/ \A q \in Procs : pc[q] = "idle"
  /\ \A q \in Procs : q < p => pc[q] # "idle"
  /\ \E r \in RequestsOffered :
       /\ req' = [req EXCEPT ![p] = r]
       /\ IF Precheck(r.method, r.body) = NoResponse
          THEN /\ pc' = [pc EXCEPT ![p] = "genHTML"]
               /\ UNCHANGED response
          ELSE /\ pc' = [pc EXCEPT ![p] = "rejected"]
               /\ response' = [response EXCEPT ![p] = Precheck(r.method, r.body)]
  /\ runs' = runs + 1
  /\ UNCHANGED <<cfgVars, localVars, calls, delays, hostVars, inbox, prev>>

\* STEP 1: anthropicHTML, with fallbackHTML in the final revision
GenHTML(p) ==
  /\ pc[p] = "genHTML"
  /\ \E resp \in GenOffered(GenTexts) :
       LET r == anthropicHTML(resp) IN
       /\ Log(p, Call("genHTML", "", Null, resp.text, <<>>, IF resp.ok THEN 200 ELSE 500,
                      IF r.threw THEN "throw" ELSE "ok", r.msg, FALSE, NoPayload))
       /\ IF ~r.threw
          THEN /\ html' = [html EXCEPT ![p] = r.value]
               /\ pc' = [pc EXCEPT ![p] = "genREADME"]
               /\ UNCHANGED response
          ELSE IF variant = Final
          THEN /\ html' = [html EXCEPT ![p] = fallbackHTML(req[p].body.brief)]
               /\ pc' = [pc EXCEPT ![p] = "genREADME"]
               /\ UNCHANGED response
          ELSE /\ Catch(p, r.msg)
               /\ UNCHANGED html
  /\ UNCHANGED <<cfgVars, req, readme, repoUrl, idxSha, rmdSha, pagesUrl,
                 commitSha, i, payload, delays, hostVars, inbox, runs, prev>>

\* STEP 2: anthropicREADME, with the fallback text in the final revision
GenREADME(p) ==
  /\ pc[p] = "genREADME"
  /\ \E resp \in GenOffered(MdTexts) :
       LET r == anthropicREADME(resp) IN
       /\ Log(p, Call("genREADME", "", Null, resp.text, <<>>, IF resp.ok THEN 200 ELSE 500,
                      IF r.threw THEN "throw" ELSE "ok", r.msg, FALSE, NoPayload))
       /\ IF ~r.threw
          THEN /\ readme' = [readme EXCEPT ![p] = r.value]
               /\ pc' = [pc EXCEPT ![p] = "createRepo"]
               /\ UNCHANGED response
          ELSE IF variant = Final
          THEN /\ readme' = [readme EXCEPT ![p] =
                               fallbackREADME(req[p].body.task, req[p].body.brief)]
               /\ pc' = [pc EXCEPT ![p] = "createRepo"]
               /\ UNCHANGED response
          ELSE /\ Catch(p, r.msg)
               /\ UNCHANGED readme
  /\ UNCHANGED <<cfgVars, req, html, repoUrl, idxSha, rmdSha, pagesUrl,
                 commitSha, i, payload, delays, hostVars, inbox, runs, prev>>

\* ghCreateRepo that throws on every unsuccessful response
ghCreateRepo_NoReuse(name, r) ==
  IF ~IsOk(r.status)
  THEN [threw |-> TRUE, html_url |-> NoUrl, exists |-> FALSE]
  ELSE [threw |-> FALSE, html_url |-> r.html_url, exists |-> FALSE]

\* ghCreateRepo that takes every 422 for "name already exists"
ghCreateRepo_Any422(name, r) ==
  IF ~IsOk(r.status)
  THEN IF r.status = 422
       THEN [threw |-> FALSE, html_url |-> RepoUrlOf(env.GITHUB_USERNAME, name),
             exists |-> TRUE]
       ELSE [threw |-> TRUE, html_url |-> NoUrl, exists |-> FALSE]
  ELSE [threw |-> FALSE, html_url |-> r.html_url, exists |-> FALSE]

\* ghCreateRepo: [threw, html_url, exists]
ghCreateRepo(name, r) ==
  IF ~IsOk(r.status)
  THEN IF r.status = 422 /\ r.nameExists
       THEN [threw |-> FALSE, html_url |-> RepoUrlOf(env.GITHUB_USERNAME, name),
             exists |-> TRUE]
       ELSE [threw |-> TRUE, html_url |-> NoUrl, exists |-> FALSE]
  ELSE [threw |-> FALSE, html_url |-> r.html_url, exists |-> FALSE]

\* RepoUrlOr without the synthesized URL
RepoUrlOr_NoFallback(html_url, owner, task) == html_url

\* repo?.html_url || `https://github.com/${owner}/${task}`
RepoUrlOr(html_url, owner, task) ==
  IF html_url # NoUrl THEN html_url ELSE RepoUrlOf(owner, task)

\* STEP 3: const repo = await ghCreateRepo(task); const repoUrl = ...
CreateRepo(p) ==
  /\ pc[p] = "createRepo"
  /\ LET task == req[p].body.task
         owner == env.GITHUB_USERNAME IN
     \E r \in HostOffered(CreateResponses(task)) :
       LET g == ghCreateRepo(task, r) IN
       /\ Log(p, Call("createRepo", "", Null, NoText, <<>>, r.status,
                      IF g.threw THEN "throw" ELSE IF g.exists THEN "exists" ELSE "ok",
                      IF g.threw THEN "GitHub create repo" ELSE "", r.fault, NoPayload))
       /\ IF IsOk(r.status)
          THEN /\ repo' = [repo EXCEPT ![task] = HostCreated(task, nextSha)]
               /\ nextSha' = nextSha + 1
          ELSE UNCHANGED hostVars
       /\ IF g.threw
          THEN /\ Catch(p, "GitHub create repo")
               /\ UNCHANGED repoUrl
          ELSE /\ repoUrl' = [repoUrl EXCEPT ![p] = RepoUrlOr(g.html_url, owner, task)]
               /\ pc' = [pc EXCEPT ![p] = "getIdx"]
               /\ UNCHANGED response
  /\ UNCHANGED <<cfgVars, req, html, readme, idxSha, rmdSha, pagesUrl,
                 commitSha, i, payload, delays, inbox, runs, prev>>

\* ghGetSha that takes every unsuccessful response for an absent path
ghGetSha_NoThrow(r) ==
  IF ~IsOk(r.status) THEN [threw |-> FALSE, sha |-> Null]
  ELSE [threw |-> FALSE, sha |-> r.sha]

\* ghGetSha: [threw, sha]
ghGetSha(r) ==
  IF r.status = 404 THEN [threw |-> FALSE, sha |-> Null]
  ELSE IF ~IsOk(r.status) THEN [threw |-> TRUE, sha |-> Null]
  ELSE [threw |-> FALSE, sha |-> r.sha]

\* AfterPut that goes back to the first lookup
AfterPut_Back(path) == IF path = IndexPath THEN "getIdx" ELSE "enablePages"

\* AfterPut that leaves STEP 4 after the first write
AfterPut_Skip(path) == "enablePages"

\* the statement that follows each await of STEP 4
AfterGet(path) == IF path = IndexPath THEN "putIdx" ELSE "putRmd"
AfterPut(path) == IF path = IndexPath THEN "getRmd" ELSE "enablePages"

PathAt(p) == IF pc[p] \in {"getIdx", "putIdx"} THEN IndexPath ELSE ReadmePath

\* STEP 4: const idxSha / rmdSha = await ghGetSha(owner, task, path)
GetSha(p) ==
  /\ pc[p] \in {"getIdx", "getRmd"}
  /\ LET task == req[p].body.task
         owner == env.GITHUB_USERNAME
         path == PathAt(p) IN
     \E r \in HostOffered(ContentsResponses(owner, task, path)) :
       LET g == ghGetSha(r) IN
       /\ Log(p, Call("getSha", path, g.sha, NoText, <<>>, r.status,
                      IF g.threw THEN "throw" ELSE IF g.sha = Null THEN "absent" ELSE "ok",
                      IF g.threw THEN "GitHub get sha" ELSE "", r.fault, NoPayload))
       /\ IF g.threw
          THEN /\ Catch(p, "GitHub get sha")
               /\ UNCHANGED <<idxSha, rmdSha>>
          ELSE /\ IF path = IndexPath
                  THEN /\ idxSha' = [idxSha EXCEPT ![p] = g.sha]
                       /\ UNCHANGED rmdSha
                  ELSE /\ rmdSha' = [rmdSha EXCEPT ![p] = g.sha]
                       /\ UNCHANGED idxSha
               /\ pc' = [pc EXCEPT ![p] = AfterGet(path)]
               /\ UNCHANGED response
  /\ UNCHANGED <<cfgVars, req, html, readme, repoUrl, pagesUrl, commitSha, i,
                 payload, delays, hostVars, inbox, runs, prev>>

\* the arguments of the two ghPutFile calls of the handler
PutContent(p) == IF PathAt(p) = IndexPath THEN toB64(html[p]) ELSE toB64(readme[p])

\* PutSha that never passes a marker
PutSha_None(p) == Null

\* PutSha that reuses the marker of index.html for both writes
PutSha_Reuse(p) == idxSha[p]

PutSha(p) == IF PathAt(p) = IndexPath THEN idxSha[p] ELSE rmdSha[p]

\* STEP 4: await ghPutFile(owner, task, path, toB64(text), message, sha)
PutFile(p) ==
  /\ pc[p] \in {"putIdx", "putRmd"}
  /\ LET task == req[p].body.task
         owner == env.GITHUB_USERNAME
         path == PathAt(p)
         sha == PutSha(p) IN
     \E r \in HostOffered(PutResponses(owner, task, path, sha)) :
       /\ Log(p, Call("putFile", path, sha, fromB64(PutContent(p)),
                      CommitMessage(path, req[p].body.round), r.status,
                      IF IsOk(r.status) THEN "ok" ELSE "throw",
                      IF IsOk(r.status) THEN "" ELSE "GitHub PUT", r.fault, NoPayload))
       /\ IF IsOk(r.status)
          THEN /\ repo' = [repo EXCEPT ![task] =
                             HostPut(task, path, fromB64(PutContent(p)), nextSha)]
               /\ nextSha' = nextSha + 1
               /\ pc' = [pc EXCEPT ![p] = AfterPut(path)]
               /\ UNCHANGED response
          ELSE /\ Catch(p, "GitHub PUT")
               /\ UNCHANGED hostVars
  /\ UNCHANGED <<cfgVars, req, localVars, delays, inbox, runs, prev>>

\* STEP 5: const pagesUrl = await ghEnablePages(owner, task)
EnablePages(p) ==
  /\ pc[p] = "enablePages"
  /\ LET task == req[p].body.task
         owner == env.GITHUB_USERNAME IN
     \E r \in HostOffered(PagesResponses(owner, task)) :
       LET threw == ~IsOk(r.status) /\ r.status # 409 IN
       /\ Log(p, Call("enablePages", "", Null, NoText, <<>>, r.status,
                      IF threw THEN "throw" ELSE IF r.status = 409 THEN "already" ELSE "ok",
                      IF threw THEN "GitHub enable pages" ELSE "", r.fault, NoPayload))
       /\ IF IsOk(r.status)
          THEN repo' = [repo EXCEPT ![task].pages = TRUE]
          ELSE UNCHANGED repo
       /\ IF threw
          THEN /\ Catch(p, "GitHub enable pages")
               /\ UNCHANGED pagesUrl
          ELSE /\ pagesUrl' = [pagesUrl EXCEPT ![p] = PagesUrlOf(owner, task)]
               /\ pc' = [pc EXCEPT ![p] = "latestCommit"]
               /\ UNCHANGED response
  /\ UNCHANGED <<cfgVars, req, html, readme, repoUrl, idxSha, rmdSha, commitSha,
                 i, payload, delays, nextSha, inbox, runs, prev>>

\* ghLatestCommit that answers "unknown" to every unsuccessful response
ghLatestCommit_NoThrow(r) ==
  IF ~IsOk(r.status) THEN [threw |-> FALSE, sha |-> Unknown]
  ELSE [threw |-> FALSE, sha |-> IF r.sha # Null THEN r.sha ELSE Unknown]

\* ghLatestCommit: [threw, sha]
ghLatestCommit(r) ==
  IF ~IsOk(r.status) THEN [threw |-> TRUE, sha |-> Null]
  ELSE [threw |-> FALSE, sha |-> IF r.sha # Null THEN r.sha ELSE Unknown]

\* a payload that always reports the first round
NotifyPayload_RoundOne(b, url, sha, pages) ==
  [email |-> b.email, task |-> b.task, round |-> 1, nonce |-> b.nonce,
   repo_url |-> url, commit_sha |-> sha, pages_url |-> pages]

\* the object literal passed to notify
NotifyPayload(b, url, sha, pages) ==
  [email |-> b.email, task |-> b.task, round |-> b.round, nonce |-> b.nonce,
   repo_url |-> url, commit_sha |-> sha, pages_url |-> pages]

\* STEP 6: const commitSha = await ghLatestCommit(owner, task, "main"), then
\* the call of notify up to its first fetch
LatestCommit(p) ==
  /\ pc[p] = "latestCommit"
  /\ LET task == req[p].body.task
         owner == env.GITHUB_USERNAME IN
     \E r \in HostOffered(RefResponses(owner, task)) :
       LET g == ghLatestCommit(r) IN
       /\ Log(p, Call("latestCommit", "", g.sha, NoText, <<>>, r.status,
                      IF g.threw THEN "throw" ELSE "ok",
                      IF g.threw THEN "GitHub ref" ELSE "", r.fault, NoPayload))
       /\ IF g.threw
          THEN /\ Catch(p, "GitHub ref")
               /\ UNCHANGED <<commitSha, payload, i>>
          ELSE /\ commitSha' = [commitSha EXCEPT ![p] = g.sha]
               /\ payload' = [payload EXCEPT ![p] =
                    NotifyPayload(req[p].body, repoUrl[p], g.sha, pagesUrl[p])]
               /\ i' = [i EXCEPT ![p] = 0]
               /\ pc' = [pc EXCEPT ![p] = "notify"]
               /\ UNCHANGED response
  /\ UNCHANGED <<cfgVars, req, html, readme, repoUrl, idxSha, rmdSha, pagesUrl,
                 delays, hostVars, inbox, runs, prev>>

\* notify: one fetch of the loop body; `if (r.ok) return true`, and then the
\* handler's return J(200, ...)
NotifyAttempt(p) ==
  /\ pc[p] = "notify"
  /\ i[p] < maxRetries
  /\ \E st \in CallbackOffered :
       /\ Log(p, Call("notify", "", Null, NoText, <<>>, st,
                      IF st = 0 THEN "throw" ELSE IF IsOk(st) THEN "ok" ELSE "fail",
                      IF st = 0 THEN "fetch failed" ELSE "", ~IsOk(st), payload[p]))
       /\ IF st = 0
          THEN /\ Catch(p, "fetch failed")
               /\ UNCHANGED inbox
          ELSE IF IsOk(st)
          THEN /\ pc' = [pc EXCEPT ![p] = "done"]
               /\ response' = [response EXCEPT ![p] =
                                 JOk(repoUrl[p], commitSha[p], pagesUrl[p])]
               /\ inbox' = [inbox EXCEPT ![p] = payload[p]]
          ELSE /\ pc' = [pc EXCEPT ![p] = "sleep"]
               /\ UNCHANGED <<response, inbox>>
  /\ UNCHANGED <<cfgVars, req, localVars, delays, hostVars, runs, prev>>

\* a linear backoff
BackoffSeconds_Linear(n) == n + 1

\* Math.pow(2, i) * 1000 ms, in seconds
BackoffSeconds(n) == 2 ^ n

\* notify: the setTimeout of Math.pow(2, i) * 1000 ms, i++, the loop test,
\* `return false` and the handler's throw
NotifySleep(p) ==
  /\ pc[p] = "sleep"
  /\ delays' = [delays EXCEPT ![p] = Append(delays[p], BackoffSeconds(i[p]))]
  /\ i' = [i EXCEPT ![p] = i[p] + 1]
  /\ IF i[p] + 1 < maxRetries
     THEN /\ pc' = [pc EXCEPT ![p] = "notify"]
          /\ UNCHANGED response
     ELSE Catch(p, "Evaluation notification failed after retries")
  /\ UNCHANGED <<cfgVars, req, html, readme, repoUrl, idxSha, rmdSha, pagesUrl,
                 commitSha, payload, calls, hostVars, inbox, runs, prev>>

Terminal == {"done", "failed", "rejected"}

\* no call of the run met a faulty host or an unsuccessful callback
Healthy(p) == \A k \in 1..Len(calls[p]) : ~calls[p][k].fault

\* the platform delivers the response; the instance and its locals are gone
Return(p) ==
  /\ pc[p] \in Terminal
  /\ prev' = IF pc[p] = "rejected" THEN prev
             ELSE [task |-> req[p].body.task, round |-> req[p].body.round,
                   pc |-> pc[p], healthy |-> Healthy(p),
                   markers |-> [q \in Paths |-> repo[req[p].body.task].files[q].sha]]
  /\ pc' = [pc EXCEPT ![p] = "idle"]
  /\ req' = [req EXCEPT ![p] = NoReq]
  /\ html' = [html EXCEPT ![p] = NoText]
  /\ readme' = [readme EXCEPT ![p] = NoText]
  /\ repoUrl' = [repoUrl EXCEPT ![p] = NoUrl]
  /\ idxSha' = [idxSha EXCEPT ![p] = Null]
  /\ rmdSha' = [rmdSha EXCEPT ![p] = Null]
  /\ pagesUrl' = [pagesUrl EXCEPT ![p] = NoUrl]
  /\ commitSha' = [commitSha EXCEPT ![p] = Null]
  /\ i' = [i EXCEPT ![p] = 0]
  /\ payload' = [payload EXCEPT ![p] = NoPayload]
  /\ response' = [response EXCEPT ![p] = NoResponse]
  /\ calls' = [calls EXCEPT ![p] = <<>>]
  /\ delays' = [delays EXCEPT ![p] = <<>>]
  /\ inbox' = [inbox EXCEPT ![p] = NoPayload]
  /\ UNCHANGED <<cfgVars, hostVars, runs>>

Next ==
  \E p \in Procs :
    \/ Invoke(p)
    \/ GenHTML(p)
    \/ GenREADME(p)
    \/ CreateRepo(p)
    \/ GetSha(p)
    \/ PutFile(p)
    \/ EnablePages(p)
    \/ LatestCommit(p)
    \/ NotifyAttempt(p)
    \/ NotifySleep(p)
    \/ Return(p)

\* the final revision of the handler, invocations one after the other
InitFinal == Init /\ variant = Final /\ ~overlap
Spec == InitFinal /\ [][Next]_vars

\* both revisions of the handler, invocations one after the other
InitRevisions == Init /\ ~overlap
SpecRevisions == InitRevisions /\ [][Next]_vars

\* the final revision of the handler, invocations overlapping
InitConcurrent == Init /\ variant = Final /\ overlap /\ env = FullEnv
SpecConcurrent == InitConcurrent /\ [][Next]_vars

\* one step of a started invocation: an outbound call settles, a backoff
\* sleep elapses, or the platform delivers the response
Step(p) ==
  \/ GenHTML(p)
  \/ GenREADME(p)
  \/ CreateRepo(p)
  \/ GetSha(p)
  \/ PutFile(p)
  \/ EnablePages(p)
  \/ LatestCommit(p)
  \/ NotifyAttempt(p)
  \/ NotifySleep(p)
  \/ Return(p)

\* the final revision of the handler, every await eventually settling
SpecLive == InitFinal /\ [][Next]_vars /\ \A p \in Procs : WF_vars(Step(p))

(* ------------------------------ properties ----------------------------- *)
Last(s) == s[Len(s)]

\* the request carries no credential, a wrong one, or lacks a required field
BadRequest(b) == SecretBad(b) \/ FieldMissing(b)

C1_State ==
  \A p \in Procs :
    (pc[p] # "idle" /\ BadRequest(req[p].body)) =>
      /\ pc[p] = "rejected"
      /\ calls[p] = <<>>
      /\ (req[p].method = "POST" /\ EnvPresent) =>
           response[p].status = (IF SecretBad(req[p].body) THEN 403 ELSE 400)

C1_Step ==
  \A p \in Procs :
    (pc[p] = "idle" /\ pc'[p] # "idle" /\ BadRequest(req'[p].body)) =>
      /\ pc'[p] = "rejected"
      /\ UNCHANGED <<hostVars, inbox>>

\* C1: an invocation whose credential is missing or wrong, or that lacks a
\* required field, is rejected (403 for the credential, 400 for a missing
\* field, once the method and the configuration checks are passed) without
\* any outbound call, and the repository host and the evaluator are untouched
C1_RejectedBeforeAnyCall == [] C1_State /\ [][C1_Step]_vars

\* a request without callback URL was rejected while the repository of an
\* earlier run exists
C1_Witness ==
  \E p \in Procs :
    /\ pc[p] = "rejected"
    /\ response[p].status = 400
    /\ req[p].body.evaluation_url = ""
    /\ \E t \in Tasks : repo[t].exists

\* the remote calls of a run, in program order; notify repeats
Stages ==
  << [op |-> "genHTML", path |-> ""],
     [op |-> "genREADME", path |-> ""],
     [op |-> "createRepo", path |-> ""],
     [op |-> "getSha", path |-> IndexPath],
     [op |-> "putFile", path |-> IndexPath],
     [op |-> "getSha", path |-> ReadmePath],
     [op |-> "putFile", path |-> ReadmePath],
     [op |-> "enablePages", path |-> ""],
     [op |-> "latestCommit", path |-> ""],
     [op |-> "notify", path |-> ""] >>

StageOf(k) == IF k < Len(Stages) THEN Stages[k] ELSE Last(Stages)

\* the call returned to the handler without throwing
Succeeded(c) == c.res \in {"ok", "exists", "absent", "already"}

\* C2: the calls of a run are issued in the order generate primary, generate
\* companion, create repository, lookup and write index.html, lookup and
\* write README.md, enable hosting, read branch head, notify; a notification
\* attempt is made only after creation or reuse, both lookups and writes,
\* hosting and the branch head read have succeeded in the same run
C2_FixedOrder ==
  \A p \in Procs :
    \A k \in 1..Len(calls[p]) :
      /\ calls[p][k].op = StageOf(k).op
      /\ calls[p][k].path = StageOf(k).path
      /\ calls[p][k].op = "notify" =>
           \A j \in 3..9 : j < k /\ Succeeded(calls[p][j])

\* a run that needed a second notification attempt has ended in Done
C2_Witness ==
  \E p \in Procs : pc[p] = "done" /\ Len(calls[p]) > Len(Stages)

\* the calls of the stages that can fail the run
Downstream(c) == c.op \notin {"genHTML", "genREADME"}

\* the call threw, or the host answered it with a server error
Fatal(c) == c.res = "throw" \/ (c.status = 500 /\ c.op # "notify")

C3_State ==
  \A p \in Procs :
    /\ \A k \in 1..Len(calls[p]) :
         (Downstream(calls[p][k]) /\ Fatal(calls[p][k])) =>
           /\ k = Len(calls[p])
           /\ pc[p] = "failed"
           /\ response[p] = JError(500, calls[p][k].err)
           /\ calls[p][k].err # ""
    /\ pc[p] = "failed" =>
         /\ response[p].status = 500
         /\ response[p].error # ""
         /\ response[p] = JError(500, response[p].error)

C3_Step ==
  \A p \in Procs :
    pc[p] = "failed" =>
      /\ UNCHANGED <<hostVars, inbox>>
      /\ \/ pc'[p] = "idle"
         \/ pc'[p] = "failed" /\ calls'[p] = calls[p] /\ response'[p] = response[p]

\* C3: a fatal failure of a call of EnsureRepository, WriteFiles,
\* EnableHosting, ResolveRevision or Notify is the last call of its run: no
\* later stage runs, nothing is undone, and the one response is the 500
\* failure object with the message of that error
C3_FailedIsAbsorbing == [] C3_State /\ [][C3_Step]_vars

\* the write of README.md failed after index.html was written
C3_Witness ==
  \E p \in Procs :
    /\ pc[p] = "failed"
    /\ Len(calls[p]) = 7
    /\ calls[p][7].res = "throw"
    /\ calls[p][5].res = "ok"
    /\ repo[req[p].body.task].files[IndexPath].sha # Null

\* C4: a failure of a generation call never fails the run: the run goes on
\* with the fallback document and the error is not the one returned
C4_GenerationNeverFatal ==
  \A p \in Procs :
    \A k \in 1..Len(calls[p]) :
      (~Downstream(calls[p][k]) /\ calls[p][k].res = "throw") =>
        /\ ~(pc[p] = "failed" /\ k = Len(calls[p]))
        /\ response[p].error # calls[p][k].err
        /\ k = 1 => html[p] = fallbackHTML(req[p].body.brief)
        /\ k = 2 => readme[p] = fallbackREADME(req[p].body.task, req[p].body.brief)

\* the text has the document-start and the document-end marker
Marked(c) == c # <<>> /\ c[1] = "DOCTYPE" /\ c[Len(c)] = "END"

\* what the provider's text is once fences and outer white space are removed
Unfenced(t) ==
  Trim(SelectSeq(t, LAMBDA x : x \notin {"FENCE_HTML", "FENCE"}))

\* C5: the content of every write of index.html is not empty and is either
\* the generator's text, which then has both markers, or the fallback
\* document; a generator text without a marker is never written
C5_IndexContent ==
  \A p \in Procs :
    \A k \in 1..Len(calls[p]) :
      (calls[p][k].op = "putFile" /\ calls[p][k].path = IndexPath) =>
        LET c == calls[p][k].content
            g == calls[p][1] IN
        /\ c # <<>>
        /\ \/ /\ g.status = 200
              /\ g.res = "ok"
              /\ Marked(c)
              /\ c = Unfenced(g.content)
           \/ c = fallbackHTML(req[p].body.brief)
        /\ ~Marked(Unfenced(g.content)) => c = fallbackHTML(req[p].body.brief)

\* the provider's text had no end marker and the fallback with the escaped
\* brief was written to index.html
C5_Witness ==
  \E p \in Procs :
    /\ Len(calls[p]) >= 5
    /\ calls[p][1].content = <<"DOCTYPE", "x">>
    /\ calls[p][5].res = "ok"
    /\ calls[p][5].content = <<"DOCTYPE", "Fallback App", "&lt;", "b", "&gt;", "END">>
    /\ repo[req[p].body.task].files[IndexPath].content = calls[p][5].content

\* C6: "name already exists" on creation gives existed=true and the URL made
\* of owner and task, and the run goes on to the file writes whatever the
\* round; any other creation failure fails the run before any lookup or write
C6_AlreadyExists ==
  \A p \in Procs :
    Len(calls[p]) >= 3 =>
      LET c == calls[p][3] IN
      /\ (c.status = 422 /\ ~c.fault) =>
           /\ c.res = "exists"
           /\ repoUrl[p] = <<"https://github.com", env.GITHUB_USERNAME, req[p].body.task>>
           /\ Len(calls[p]) = 3 => pc[p] = "getIdx"
      /\ (~IsOk(c.status) /\ ~(c.status = 422 /\ ~c.fault)) =>
           /\ Len(calls[p]) = 3
           /\ pc[p] = "failed"

\* a round-1 request met an existing repository and index.html was written
C6_Witness ==
  \E p \in Procs :
    /\ req[p].body.round = 1
    /\ Len(calls[p]) >= 5
    /\ calls[p][3].res = "exists"
    /\ calls[p][5].op = "putFile"
    /\ calls[p][5].res = "ok"

\* the run follows a healthy round-1 run on the same task and is round 2
SecondRound(p) ==
  /\ pc[p] \notin {"idle", "rejected"}
  /\ req[p].body.round = 2
  /\ prev.round = 1
  /\ prev.task = req[p].body.task
  /\ prev.healthy
  /\ Healthy(p)

\* C7: round 1 then round 2 on one task, one after the other, host and
\* callback healthy: each write of round 2 carries the marker the path had
\* when round 1 returned, and both runs end in Done
C7_SecondRoundMarkers ==
  \A p \in Procs :
    SecondRound(p) =>
      /\ prev.pc = "done"
      /\ pc[p] # "failed"
      /\ \A k \in 1..Len(calls[p]) :
           calls[p][k].op = "putFile" =>
             /\ calls[p][k].sha # Null
             /\ calls[p][k].sha = prev.markers[calls[p][k].path]
             /\ calls[p][k].res = "ok"

\* round 2 has ended in Done after round 1 did
C7_Witness ==
  \E p \in Procs : SecondRound(p) /\ pc[p] = "done" /\ prev.pc = "done"

\* a round-1 run that created the repository, host and callback healthy
FreshRound1(p) ==
  /\ req[p].body.round = 1
  /\ Len(calls[p]) >= 3
  /\ calls[p][3].status = 201
  /\ Healthy(p)

\* C8: a valid round-1 request on a task without repository, host and
\* callback healthy, generation succeeding or not, ends in Done and the
\* notified repository URL is https://github.com/<owner>/<task>
C8_FreshRoundOne ==
  \A p \in Procs :
    FreshRound1(p) =>
      /\ pc[p] # "failed"
      /\ pc[p] \in {"notify", "done"} =>
           payload[p].repo_url = <<"https://github.com", "owner", req[p].body.task>>
      /\ pc[p] = "done" =>
           /\ inbox[p] = payload[p]
           /\ response[p].repo_url = payload[p].repo_url

\* such a run is in Done although both generation calls failed
C8_Witness ==
  \E p \in Procs :
    /\ FreshRound1(p)
    /\ pc[p] = "done"
    /\ calls[p][1].res = "throw"
    /\ calls[p][2].res = "throw"

Notifies(p) == SelectSeq(calls[p], LAMBDA c : c.op = "notify")

\* every delivery attempt so far was answered with an unsuccessful status
AllRefused(p) == \A k \in 1..Len(Notifies(p)) : Notifies(p)[k].res = "fail"

\* C9: with a callback that answers every attempt unsuccessfully notify
\* makes exactly 5 attempts and returns false; the run ends in Failed with
\* the 500 response of the notification-exhaustion error, never in Done
C9_Exhaustion ==
  \A p \in Procs :
    /\ Len(Notifies(p)) <= 5
    /\ (Len(Notifies(p)) > 0 /\ AllRefused(p)) =>
         /\ pc[p] \in {"sleep", "notify", "failed"}
         /\ pc[p] = "notify" => Len(Notifies(p)) < 5
         /\ pc[p] = "failed" =>
              /\ Len(Notifies(p)) = 5
              /\ response[p] =
                   JError(500, "Evaluation notification failed after retries")
              /\ response[p].error \notin
                   {"GitHub create repo", "GitHub get sha", "GitHub PUT",
                    "GitHub enable pages", "GitHub ref"}

\* the fifth attempt was refused and the run has failed
C9_Witness ==
  \E p \in Procs :
    /\ pc[p] = "failed"
    /\ Len(Notifies(p)) = 5
    /\ AllRefused(p)

C10_State ==
  \A p \in Procs :
    pc[p] = "done" =>
      LET n == Notifies(p)
          k == Len(n) IN
      /\ k >= 1 /\ k <= 5
      /\ n[k].res = "ok"
      /\ \A j \in 1..(k - 1) : n[j].res = "fail"
      /\ inbox[p] = payload[p]
      /\ Len(delays[p]) = k - 1
      /\ \A j \in 1..(k - 1) : delays[p][j] = 2 ^ (j - 1)

C10_Step ==
  \A p \in Procs :
    pc[p] = "done" => (pc'[p] = "idle" \/ (pc'[p] = "done" /\ calls'[p] = calls[p]))

\* C10: when the first successful callback response is that of attempt k,
\* notify has made exactly k attempts, makes none after it, returns true, and
\* has slept 1, 2, ..., 2^(k-2) seconds in that order, nothing before
\* attempt 1
C10_FirstSuccess == [] C10_State /\ [][C10_Step]_vars

\* delivered on the third attempt after delays of 1 s and 2 s
C10_Witness ==
  \E p \in Procs :
    /\ pc[p] = "done"
    /\ Len(Notifies(p)) = 3
    /\ delays[p] = <<1, 2>>

\* C11: notify never raises on a single unsuccessful attempt, be it an
\* unsuccessful status or an error of the outbound call: while attempts
\* remain it goes on with the next one, and the only failure it reports is
\* delivered=false once all 5 attempts are used up
C11_NotifyNeverRaises ==
  \A p \in Procs :
    \A k \in 1..Len(Notifies(p)) :
      Notifies(p)[k].res # "ok" =>
        /\ (k < 5 /\ k = Len(Notifies(p))) => pc[p] # "failed"
        /\ pc[p] = "failed" =>
             response[p].error = "Evaluation notification failed after retries"

\* the value is a revision identifier of the host
IsRevision(x) == x # Null /\ x # Unknown

\* C12: every notification attempt and every success response carries a
\* head revision read from the default branch after both writes; when the
\* branch-head read yields no revision identifier (branch missing, transport
\* error, response without one) the run fails and notifies nobody
C12_RevisionRead ==
  \A p \in Procs :
    Len(calls[p]) >= 9 =>
      LET c == calls[p][9] IN
      /\ ~IsRevision(c.sha) => (pc[p] = "failed" /\ Notifies(p) = <<>>)
      /\ \A k \in 1..Len(Notifies(p)) :
           /\ IsRevision(Notifies(p)[k].body.commit_sha)
           /\ Notifies(p)[k].body.commit_sha = c.sha
           /\ c.sha = repo[req[p].body.task].head
      /\ pc[p] = "done" =>
           (IsRevision(response[p].commit_sha) /\ response[p].commit_sha = c.sha)

C13_State ==
  \A p \in Procs :
    /\ pc[p] \in Terminal <=> response[p] # NoResponse
    /\ (pc[p] = "rejected" /\ req[p].method = "POST" /\ EnvPresent) =>
         \/ SecretBad(req[p].body) /\ response[p] = JError(403, response[p].error)
         \/ /\ ~SecretBad(req[p].body)
            /\ FieldMissing(req[p].body)
            /\ response[p] = JError(400, response[p].error)
    /\ pc[p] = "failed" =>
         (response[p] = JError(500, response[p].error) /\ response[p].error # "")
    /\ response[p].status = 200 <=> pc[p] = "done"
    /\ pc[p] = "done" =>
         /\ inbox[p] # NoPayload
         /\ response[p] =
              [status |-> 200, error |-> "", ok |-> "ok",
               repo_url |-> inbox[p].repo_url,
               commit_sha |-> inbox[p].commit_sha,
               pages_url |-> inbox[p].pages_url]

C13_Step ==
  \A p \in Procs :
    response[p] # NoResponse => (response'[p] = response[p] \/ pc'[p] = "idle")

\* C13: an invocation produces one response: 400 for a validation failure,
\* 403 for a credential failure, 500 with only the error message for a
\* failure after validation, and the success object only in Done, with the
\* repository URL, head revision and hosting URL of the delivered payload
C13_OneResponse == [] C13_State /\ [][C13_Step]_vars

\* a run in Done answered 200 with the values the evaluator accepted
C13_Witness ==
  \E p \in Procs :
    /\ pc[p] = "done"
    /\ response[p].status = 200
    /\ response[p].repo_url = inbox[p].repo_url
    /\ response[p].repo_url # NoUrl
    /\ response[p].pages_url = inbox[p].pages_url
    /\ IsRevision(response[p].commit_sha)

\* the run follows a failed run on the same task and has met no fault
AfterFailedRun(p) ==
  /\ pc[p] \notin {"idle", "rejected"}
  /\ prev.pc = "failed"
  /\ prev.task = req[p].body.task
  /\ Healthy(p)

C14_State ==
  \A p \in Procs :
    /\ AfterFailedRun(p) => pc[p] # "failed"
    /\ \A k \in 1..Len(calls[p]) :
         calls[p][k].op \in {"genHTML", "genREADME", "createRepo", "getSha",
                             "putFile", "enablePages", "latestCommit", "notify"}

\* nothing the host holds is deleted or rolled back
C14_Step ==
  \A t \in Tasks :
    /\ repo[t].exists => repo'[t].exists
    /\ repo[t].pages => repo'[t].pages
    /\ repo'[t].head >= repo[t].head
    /\ \A q \in Paths :
         /\ repo[t].files[q].sha # Null => repo'[t].files[q].sha # Null
         /\ repo'[t].files[q].sha >= repo[t].files[q].sha

\* C14: whatever stage a run failed at and whatever it left on the host,
\* the next run on the same task, alone and with host and callback healthy,
\* ends in Done; no run issues a delete or rollback call
C14_Reconciled == [] C14_State /\ [][C14_Step]_vars

\* a run is in Done after a run that failed once hosting was enabled
C14_Witness ==
  \E p \in Procs :
    /\ AfterFailedRun(p)
    /\ pc[p] = "done"
    /\ calls[p][3].res = "exists"
    /\ calls[p][4].res = "ok"
    /\ calls[p][8].res = "already"

\* the calls of the run with this operation on this path
CallsOn(p, op, path) ==
  SelectSeq(calls[p], LAMBDA c : c.op = op /\ c.path = path)

\* the run is at a write whose marker is not the one the path has now
StaleAt(p) ==
  /\ pc[p] \in {"putIdx", "putRmd"}
  /\ PutSha(p) # repo[req[p].body.task].files[PathAt(p)].sha

\* the run lost a write
LostWrite(p) ==
  /\ calls[p] # <<>>
  /\ Last(calls[p]).op = "putFile"
  /\ Last(calls[p]).res = "throw"

C15_State ==
  \A p \in Procs :
    /\ \A q \in Paths :
         /\ Len(CallsOn(p, "getSha", q)) <= 1
         /\ Len(CallsOn(p, "putFile", q)) <= 1
    /\ LostWrite(p) =>
         /\ pc[p] = "failed"
         /\ response[p] = JError(500, "GitHub PUT")
         /\ Notifies(p) = <<>>
         /\ inbox[p] = NoPayload

C15_Step ==
  \A p \in Procs :
    /\ (StaleAt(p) /\ calls'[p] # calls[p]) =>
         /\ repo' = repo
         /\ LostWrite(p)'
    /\ LostWrite(p) => (calls'[p] = calls[p] \/ pc'[p] = "idle")

\* C15: with two invocations interleaved on one task, a write whose marker
\* went stale between the lookup and the write is refused by the host and
\* changes nothing there; the invocation repeats neither the lookup nor the
\* write, ends in Failed with a 500 response and notifies nobody
C15_StaleWriteLoses == [] C15_State /\ [][C15_Step]_vars

\* a write of README.md was refused with 409 and the path holds what the
\* other invocation wrote
C15_Witness ==
  \E p \in Procs, q \in Procs :
    /\ p # q
    /\ LostWrite(p)
    /\ Last(calls[p]).status = 409
    /\ Last(calls[p]).path = ReadmePath
    /\ Len(CallsOn(q, "putFile", ReadmePath)) = 1
    /\ CallsOn(q, "putFile", ReadmePath)[1].res = "ok"
    /\ repo[req[p].body.task].files[ReadmePath].content
         = CallsOn(q, "putFile", ReadmePath)[1].content
    /\ repo[req[p].body.task].files[ReadmePath].content # Last(calls[p]).content

\* the position of a stage in the handler's text
Rank(s) ==
  CASE s = "genHTML" -> 1
    [] s = "genREADME" -> 2
    [] s = "createRepo" -> 3
    [] s = "getIdx" -> 4
    [] s = "putIdx" -> 5
    [] s = "getRmd" -> 6
    [] s = "putRmd" -> 7
    [] s = "enablePages" -> 8
    [] s = "latestCommit" -> 9
    [] s \in {"notify", "sleep"} -> 10
    [] s \in {"done", "failed"} -> 11
    [] OTHER -> 0

C16_Step ==
  \A p \in Procs :
    (Rank(pc[p]) > 0 /\ pc'[p] # pc[p]) =>
      \/ Rank(pc'[p]) > Rank(pc[p])
      \/ {pc[p], pc'[p]} = {"notify", "sleep"}
      \/ pc[p] \in {"done", "failed"} /\ pc'[p] = "idle"

\* C16: when every outbound call settles and every backoff sleep elapses, an
\* invocation that started eventually reaches done or failed with its
\* response set, the response is eventually delivered, and no step takes the
\* invocation back to an earlier stage
C16_Terminates ==
  /\ [][C16_Step]_vars
  /\ \A p \in Procs :
       /\ (Rank(pc[p]) > 0) ~> (pc[p] \in {"done", "failed"} /\ response[p] # NoResponse)
       /\ (pc[p] \in Terminal) ~> (pc[p] = "idle")

\* an invocation went through the retry loop and ended
C16_Witness ==
  \E p \in Procs :
    /\ pc[p] \in {"done", "failed"}
    /\ Len(delays[p]) >= 2
    /\ response[p] # NoResponse

\* the calls of STEP 3 to STEP 6 on the repository host
HostOps == {"createRepo", "getSha", "putFile", "enablePages", "latestCommit"}

\* a call on the repository host that got an unsuccessful response
Unsuccessful(c) == c.op \in HostOps /\ ~IsOk(c.status)

\* the run failed on its k-th call
FailedAt(p, k) ==
  /\ k = Len(calls[p])
  /\ pc[p] = "failed"
  /\ response[p] = JError(500, calls[p][k].err)

\* the unsuccessful responses the helpers take for success: 422 "name already
\* exists" on creation, 404 on the lookup, 409 on the hosting call
Tolerated(c) ==
  \/ c.op = "createRepo" /\ c.status = 422 /\ c.res = "exists"
  \/ c.op = "getSha" /\ c.status = 404
  \/ c.op = "enablePages" /\ c.status = 409

\* C17 as stated: every unsuccessful response of the host other than "already
\* exists" on repository creation sends the run to Failed
C17_OnlyAlreadyExists ==
  \A p \in Procs : \A k \in 1..Len(calls[p]) :
    (Unsuccessful(calls[p][k]) /\ calls[p][k].res # "exists") => FailedAt(p, k)

\* C17: the unsuccessful responses of the host that a run takes for success
\* are "already exists" on repository creation, 404 on a marker lookup and
\* 409 on the hosting call; after one of these the run goes on, and every
\* other unsuccessful response sends the run to Failed as its last call
C17_Tolerated ==
  \A p \in Procs : \A k \in 1..Len(calls[p]) :
    Unsuccessful(calls[p][k]) =>
      IF Tolerated(calls[p][k])
      THEN /\ Succeeded(calls[p][k])
           /\ k = Len(calls[p]) => pc[p] \notin {"failed", "idle"}
      ELSE FailedAt(p, k)

\* a run got "already exists" and "already enabled" and is done; the run
\* before it failed
C17_Witness ==
  \E p \in Procs :
    /\ pc[p] = "done"
    /\ \E k \in 1..Len(calls[p]) : calls[p][k].op = "createRepo" /\ Tolerated(calls[p][k])
    /\ \E k \in 1..Len(calls[p]) : calls[p][k].op = "enablePages" /\ Tolerated(calls[p][k])
    /\ prev.pc = "failed"

C18_Puts ==
  \A p \in Procs : \A k \in 1..Len(calls[p]) :
    calls[p][k].op = "putFile" =>
      /\ k > 1
      /\ calls[p][k - 1].op = "getSha"
      /\ calls[p][k - 1].path = calls[p][k].path
      /\ calls[p][k - 1].res # "throw"
      /\ calls[p][k].sha = calls[p][k - 1].sha
      /\ calls[p][k - 1].status = 404 => calls[p][k].sha = Null

C18_Gets ==
  \A p \in Procs : \A k \in 1..Len(calls[p]) :
    calls[p][k].op = "getSha" =>
      /\ calls[p][k].res = "throw" => (k = Len(calls[p]) /\ pc[p] = "failed")
      /\ calls[p][k].path = ReadmePath =>
           /\ k > 1
           /\ calls[p][k - 1].op = "putFile"
           /\ calls[p][k - 1].path = IndexPath
           /\ calls[p][k - 1].res = "ok"

\* C18: each file write of a run directly follows, in that run's calls, the
\* marker lookup of the same path and carries the marker that lookup
\* returned, none when the lookup answered 404; a lookup that failed is the
\* run's last call and the run is Failed; README.md is looked up only
\* directly after the write of index.html succeeded
C18_LookupBeforeWrite == C18_Puts /\ C18_Gets

\* a run wrote index.html as a new file without a marker and README.md with
\* the marker its own lookup returned; the run before failed on a lookup
C18_Witness ==
  \E p \in Procs :
    /\ Len(CallsOn(p, "putFile", IndexPath)) = 1
    /\ CallsOn(p, "putFile", IndexPath)[1].sha = Null
    /\ Len(CallsOn(p, "putFile", ReadmePath)) = 1
    /\ CallsOn(p, "putFile", ReadmePath)[1].sha # Null
    /\ CallsOn(p, "putFile", ReadmePath)[1].res = "ok"
    /\ prev.pc = "failed"

\* the sleeps of the notify loop so far, against its attempts
C19_State ==
  \A p \in Procs :
    /\ Len(delays[p]) <= Len(Notifies(p))
    /\ \A k \in 1..Len(delays[p]) :
         /\ delays[p][k] = 2 ^ (k - 1)
         /\ Notifies(p)[k].res # "ok"
    /\ (pc[p] \in {"done", "failed"} /\ Notifies(p) # <<>>) =>
         Len(delays[p]) = Len(Notifies(p)) - 1

\* C19: notify sleeps only between two attempts: nothing before the first
\* attempt, 2^i seconds after failed attempt i, and once notify has returned
\* every sleep has been followed by a further attempt
C19_SleepOnlyBetween == C19_State

\* the run has published both files, enabled hosting and read the head
Published(p) ==
  /\ Len(CallsOn(p, "putFile", IndexPath)) = 1
  /\ CallsOn(p, "putFile", IndexPath)[1].res = "ok"
  /\ Len(CallsOn(p, "putFile", ReadmePath)) = 1
  /\ CallsOn(p, "putFile", ReadmePath)[1].res = "ok"
  /\ \E k \in 1..Len(calls[p]) : calls[p][k].op = "enablePages" /\ Succeeded(calls[p][k])
  /\ \E k \in 1..Len(calls[p]) : calls[p][k].op = "latestCommit" /\ calls[p][k].res = "ok"

C20_State ==
  \A p \in Procs :
    /\ payload[p] # NoPayload =>
         /\ Published(p)
         /\ payload[p].email = req[p].body.email
         /\ payload[p].task = req[p].body.task
         /\ payload[p].round = req[p].body.round
         /\ payload[p].nonce = req[p].body.nonce
    /\ \A k \in 1..Len(Notifies(p)) :
         /\ payload[p] # NoPayload
         /\ Notifies(p)[k].body = payload[p]
    /\ inbox[p] # NoPayload => inbox[p] = payload[p]

C20_Step ==
  \A p \in Procs :
    /\ payload[p] # NoPayload => (payload'[p] = payload[p] \/ pc'[p] = "idle")
    /\ payload'[p] # payload[p] => (pc[p] = "latestCommit" \/ pc'[p] = "idle")

\* C20: the payload of a run is built once, when the files are written,
\* hosting is enabled and the head is read; from then on it does not change
\* until the run returns, every delivery attempt of the run carries it, and
\* its email, task, round and nonce are those of the request
C20_PayloadOnce == [] C20_State /\ [][C20_Step]_vars

\* a second-round run delivered at its third attempt
C20_Witness ==
  \E p \in Procs :
    /\ pc[p] = "done"
    /\ Len(Notifies(p)) = 3
    /\ req[p].body.round = 2
    /\ inbox[p] = Notifies(p)[1].body

\* the path holds, on the host, what this run wrote to it
HoldsOwn(p, path) ==
  /\ Len(CallsOn(p, "putFile", path)) = 1
  /\ repo[req[p].body.task].files[path].content = CallsOn(p, "putFile", path)[1].content

\* the run reads the branch head and goes on to notify; the head it reads
\* is the commit of the host's present state
C21_Step ==
  \A p \in Procs :
    (pc[p] = "latestCommit" /\ pc'[p] = "notify") =>
      /\ commitSha'[p] = repo[req[p].body.task].head
      /\ HoldsOwn(p, IndexPath)
      /\ HoldsOwn(p, ReadmePath)

\* C21: the head revision a run puts in its notification is the commit of a
\* repository state in which index.html and README.md hold what that run
\* wrote, also when another invocation on the same task writes between the
\* run's last write and its read of the branch head
C21_HeadIsOwn == [][C21_Step]_vars
====
